---------------------------- MODULE Spec2Model ----------------------------
(***************************************************************************)
(* A model of suite2p/detection/anatomical.py: the mask reconciliation     *)
(* loop refine_masks, the label canonicalisation of roi_detect, and the    *)
(* call chain select_rois -> roi_detect -> estimate_diameter_from_activity *)
(* -> select_rois.                                                         *)
(*                                                                         *)
(* A value that is used several times is bound by a quantifier over a      *)
(* one-element set (\E x \in {e}, {f(x) : x \in {e}}): it is computed once. *)
(*                                                                         *)
(* Arrays are sequences of rows.  Python indices are 0-based, TLA+         *)
(* sequences 1-based: pixel coordinates kept in the state (ypix, xpix,     *)
(* seeds) are the 0-based values of the program, and At converts.          *)
(* Weights are float32 in the program and small integers here.             *)
(***************************************************************************)
EXTENDS Integers, Sequences, FiniteSets, TLC

VARIABLES
    pc,            \* which routine runs, and where it stands
    dims,          \* refine_masks: [Lyc, Lxc, ly], frame size and patch half-size
    stats,         \* refine_masks: the region records, mutated in place
    stats0,        \* refine_masks: the region records as passed in (history)
    seeds,         \* refine_masks: one (yi, xi) per region
    patch_masks,   \* refine_masks: patch_detect's label mask per region
    i,             \* refine_masks: the loop index
    masks_in,      \* relabelling: the label mask returned by the model
    masks_out,     \* relabelling: the mask after np.unique / reshape
    stack,         \* select_rois chain: the call stack, innermost frame last
    ret,           \* select_rois chain: what the last finished call handed back
    hist           \* select_rois chain: what happened so far (history)

vars == <<pc, dims, stats, stats0, seeds, patch_masks, i, masks_in, masks_out,
          stack, ret, hist>>

refineVars == <<dims, stats, stats0, seeds, patch_masks, i>>
relabelVars == <<masks_in, masks_out>>
selectVars == <<stack, ret, hist>>

\* Python values of varying type are tagged records: None, a number, a list
None == [kind |-> "none"]

Num(n) == [kind |-> "num", v |-> n]

List(t) == [kind |-> "list", v |-> t]

\* ------------------------------------------------------------ arithmetic

Max2(a, b) == IF a >= b THEN a ELSE b

Min2(a, b) == IF a <= b THEN a ELSE b

\* ---------------------------------------------------------------- arrays

Height(m) == Len(m)

Width(m) == IF Len(m) = 0 THEN 0 ELSE Len(m[1])

\* m[r, c] for 0-based r, c
At(m, r, c) == m[r + 1][c + 1]

\* m[r0:r1, c0:c1] for 0 <= r0, 0 <= c0 (an empty slice when r1 <= r0)
Slice(m, r0, r1, c0, c1) ==
    [r \in 1..Max2(0, Min2(r1, Height(m)) - r0) |->
        [c \in 1..Max2(0, Min2(c1, Width(m)) - c0) |-> m[r0 + r][c0 + c]]]

\* the 0-based positions of an h x w array in row-major order
Positions(h, w) == [p \in 1..(h * w) |-> <<(p - 1) \div w, (p - 1) % w>>]

\* np.nonzero(m == id): the positions where m equals id, row-major
NonzeroEq(m, id) ==
    SelectSeq(Positions(Height(m), Width(m)), LAMBDA q : At(m, q[1], q[2]) = id)

\* m.max() of a non-empty integer array
ArrayMax(m) ==
    CHOOSE v \in {m[r][c] : r \in 1..Height(m), c \in 1..Width(m)} :
        \A r \in 1..Height(m), c \in 1..Width(m) : m[r][c] <= v

\* lam0.min() of a non-empty sequence
SeqMin(s) == CHOOSE v \in {s[k] : k \in 1..Len(s)} : \A k \in 1..Len(s) : v <= s[k]


\* ---------------------------------------------------------- refine_masks

\* The acceptance threshold 0.45 of refine_masks, as the fraction 9 / 20.
\* An IOU is kept as the pair <<intersection, union>> of pixel counts, so the
\* comparison with 0.45 is exact.
ThresholdNum == 9

ThresholdDen == 20

\* mask = np.zeros((Lyc, Lxc)); mask[ypix0, xpix0] = stat["lam"]
\* (with a repeated pixel the last assignment stays)
DenseMask(stat, Lyc, Lxc) ==
    [r \in 1..Lyc |-> [c \in 1..Lxc |->
        LET idx == {k \in 1..Len(stat.ypix) :
                        stat.ypix[k] = r - 1 /\ stat.xpix[k] = c - 1}
        IN  IF idx = {} THEN 0
            ELSE stat.lam[CHOOSE k \in idx : \A j \in idx : j <= k]]]

\* utils.square_mask(mask, ly, yi, xi): the 2ly x 2ly window of mask around
\* (yi, xi), zero outside the frame
square_mask(mask, ly, yi, xi) ==
    [r \in 1..(2 * ly) |-> [c \in 1..(2 * ly) |->
        LET y == yi - ly + (r - 1)
            x == xi - ly + (c - 1)
        IN  IF y >= 0 /\ y < Height(mask) /\ x >= 0 /\ x < Width(mask)
            THEN At(mask, y, x) ELSE 0]]

\* (func_mask > 0).astype(np.uint16)
Binarize(m) ==
    [r \in 1..Height(m) |-> [c \in 1..Width(m) |-> IF m[r][c] > 0 THEN 1 ELSE 0]]

\* utils.mask_ious(a, b)[0] for a binary b: for every id k of a, the pair
\* <<|a = k and b = 1|, |a = k or b = 1|>>
mask_ious(a, b) ==
    LET P == Positions(Height(a), Width(a))
        n == IF Len(P) = 0 THEN 0 ELSE ArrayMax(a)
    IN  [k \in 1..n |->
            <<Len(SelectSeq(P, LAMBDA q : At(a, q[1], q[2]) = k /\ At(b, q[1], q[2]) = 1)),
              Len(SelectSeq(P, LAMBDA q : At(a, q[1], q[2]) = k \/ At(b, q[1], q[2]) = 1))>>]

\* x >= y for IOUs x, y (unions are positive)
IouGeq(x, y) == x[1] * y[2] >= y[1] * x[2]

\* np.argmax(ious): the first index holding the maximum (0-based)
ArgMax(ious) ==
    (CHOOSE k \in 1..Len(ious) :
        /\ \A j \in 1..Len(ious) : IouGeq(ious[k], ious[j])
        /\ \A j \in 1..(k - 1) : ~IouGeq(ious[j], ious[k])) - 1

\* ious.max()
IouMax(ious) == ious[ArgMax(ious) + 1]

AcceptLoose(ious) ==
    /\ Len(ious) > 0
    /\ IouMax(ious)[1] * ThresholdDen >= ThresholdNum * IouMax(ious)[2]

\* len(ious) > 0 and ious.max() > 0.45
Accept(ious) ==
    /\ Len(ious) > 0
    /\ IouMax(ious)[1] * ThresholdDen > ThresholdNum * IouMax(ious)[2]

CropUnclamped(ly, yi, L) == <<Max2(0, ly - yi), 2 * ly>>

\* the slice bounds max(0, ly - yi) : min(2 * ly, Lyc + ly - yi) that crop the
\* patch to its overlap with the frame (rows with Lyc, columns with Lxc)
Crop(ly, yi, L) == <<Max2(0, ly - yi), Min2(2 * ly, L + ly - yi)>>

\* max(0, yi - ly): the frame coordinate of the cropped patch's first row
Offset(yi, ly) == Max2(0, yi - ly)

\* lam0[lam0 <= 0] = lam0.min()  (lam0 is not empty: an accepted label shares
\* a pixel with the footprint, which lies inside the frame)
ReplaceNonPositive(lam0) ==
    CHOOSE out \in {[k \in 1..Len(lam0) |-> IF lam0[k] <= 0 THEN lo ELSE lam0[k]] :
                        lo \in {IF Len(lam0) = 0 THEN 0 ELSE SeqMin(lam0)}} : TRUE

\* One pass of the loop body of refine_masks for one region.
Adopted(patch_mask, func_mask, mask_id, yi, xi, Lyc, Lxc, ly) ==
    LET rows == Crop(ly, yi, Lyc)
        cols == Crop(ly, xi, Lxc)
    IN  CHOOSE st \in
            {[ypix |-> [k \in 1..Len(pix) |-> pix[k][1] + Offset(yi, ly)],
              xpix |-> [k \in 1..Len(pix) |-> pix[k][2] + Offset(xi, ly)],
              lam |-> ReplaceNonPositive(
                          [k \in 1..Len(pix) |->
                              At(func_mask, rows[1] + pix[k][1], cols[1] + pix[k][2])]),
              anatomical |-> TRUE] :
             pix \in {NonzeroEq(Slice(patch_mask, rows[1], rows[2], cols[1], cols[2]),
                                mask_id)}} : TRUE

\* One pass of the loop body of refine_masks for one region (lines 87-110).
RefineStat(stat, patch_mask, seed, Lyc, Lxc, ly) ==
    CHOOSE st \in
        {IF Accept(ious)
         THEN Adopted(patch_mask, func_mask, ArgMax(ious) + 1, seed[1], seed[2], Lyc, Lxc, ly)
         ELSE [stat EXCEPT !.anatomical = FALSE] :
            <<func_mask, ious>> \in
                {<<fm, mask_ious(patch_mask, Binarize(fm))>> :
                    fm \in {square_mask(DenseMask(stat, Lyc, Lxc), ly, seed[1], seed[2])}}} :
        TRUE

\* ------------------------------------------------- refine_masks: inputs

\* the most regions one call of refine_masks is given
MaxMasks == 2

\* <<Lyc, Lxc, ly>>: frames smaller than the patch, as wide as it, and larger
Configs == {<<5, 4, 3>>, <<3, 5, 2>>, <<4, 6, 1>>}

\* seeds inside the frame: a corner, the centre, the opposite corner
SeedsOf(cfg) == {<<0, 0>>, <<cfg[1] \div 2, cfg[2] \div 2>>, <<cfg[1] - 1, cfg[2] - 1>>}

\* the pixels of rows r0..r1, columns c0..c1 within an h x w array, row-major
RectPixels(r0, r1, c0, c1, h, w) ==
    SelectSeq(Positions(h, w),
              LAMBDA q : q[1] >= r0 /\ q[1] <= r1 /\ q[2] >= c0 /\ q[2] <= c1)

\* a region record over the given pixels, weights repeating the pattern
StatOf(pix, pattern) ==
    [ypix |-> [k \in 1..Len(pix) |-> pix[k][1]],
     xpix |-> [k \in 1..Len(pix) |-> pix[k][2]],
     lam |-> [k \in 1..Len(pix) |-> pattern[((k - 1) % Len(pattern)) + 1]],
     anatomical |-> None]

\* activity-based footprints around a seed: 3 x 3 with positive weights,
\* 3 x 3 with a negative weight in every row, 2 x 2 with positive weights
StatsOf(cfg, seed) ==
    LET yi == seed[1]
        xi == seed[2]
        around == RectPixels(yi - 1, yi + 1, xi - 1, xi + 1, cfg[1], cfg[2])
        below == RectPixels(yi, yi + 1, xi, xi + 1, cfg[1], cfg[2])
    IN  {StatOf(around, <<2, 1>>), StatOf(around, <<1, -1, 2>>), StatOf(below, <<3>>)}

\* the pairs <<region record, seed>> a call may be given for a frame
RegionsOf(cfg) == UNION {{<<st, sd>> : st \in StatsOf(cfg, sd)} : sd \in SeedsOf(cfg)}

PatchKinds == {"empty", "exact", "wide", "grown", "two"}

\* The label masks patch_detect may decode for a region (2ly x 2ly, ids
\* contiguous from 1): nothing; the functional footprint itself; a block of
\* 4 x 5 pixels at the patch centre; the footprint grown by one column on each
\* side; and a first region on the patch's top row with the grown footprint
\* as the second.
PatchOf(kind, stat, seed, cfg) ==
    LET ly == cfg[3]
        grown(fm, r, c) == \E d \in {-1, 0, 1} :
                              c + d >= 1 /\ c + d <= 2 * ly /\ fm[r][c + d] = 1
    IN  CHOOSE pm \in
            {[r \in 1..(2 * ly) |-> [c \in 1..(2 * ly) |->
                CASE kind = "empty" -> 0
                  [] kind = "exact" -> fm[r][c]
                  [] kind = "wide" ->
                        IF /\ r - 1 >= ly - 2 /\ r - 1 <= ly + 1
                           /\ c - 1 >= ly - 2 /\ c - 1 <= ly + 2
                        THEN 1 ELSE 0
                  [] kind = "grown" -> IF grown(fm, r, c) THEN 1 ELSE 0
                  [] kind = "two" ->
                        IF r = 1 THEN 1 ELSE IF grown(fm, r, c) THEN 2 ELSE 0]] :
             fm \in {Binarize(square_mask(DenseMask(stat, cfg[1], cfg[2]),
                                          ly, seed[1], seed[2]))}} : TRUE

\* ------------------------------------------------ refine_masks: actions

InitRefine ==
    /\ pc = "patch_detect"
    /\ \E cfg \in Configs, n \in 1..MaxMasks :
        \E regions \in [1..n -> RegionsOf(cfg)] :
            /\ dims = cfg
            /\ stats = [k \in 1..n |-> regions[k][1]]
            /\ seeds = [k \in 1..n |-> regions[k][2]]
    /\ stats0 = stats
    /\ patch_masks = <<>>
    /\ i = 0
    /\ masks_in = <<>>
    /\ masks_out = <<>>
    /\ stack = <<>>
    /\ ret = None
    /\ hist = <<>>

\* patch_masks = patch_detect(patches, diam): the external model decodes one
\* label mask per patch (every patch of a call in the same one of the ways of
\* PatchKinds, which keeps the state space of a call linear in them)
PatchDetect ==
    /\ pc = "patch_detect"
    /\ \E kind \in PatchKinds :
        patch_masks' = [k \in 1..Len(stats) |->
                            PatchOf(kind, stats[k], seeds[k], dims)]
    /\ pc' = "loop"
    /\ UNCHANGED <<dims, stats, stats0, seeds, i>>
    /\ UNCHANGED relabelVars
    /\ UNCHANGED selectVars

\* one iteration of the loop over (patch_mask, stat, seed)
RefineMask ==
    /\ pc = "loop"
    /\ i < Len(stats)
    /\ stats' = [stats EXCEPT ![i + 1] =
                    RefineStat(stats[i + 1], patch_masks[i + 1], seeds[i + 1],
                               dims[1], dims[2], dims[3])]
    /\ i' = i + 1
    /\ UNCHANGED <<pc, dims, stats0, seeds, patch_masks>>
    /\ UNCHANGED relabelVars
    /\ UNCHANGED selectVars

\* return stats
RefineReturn ==
    /\ pc = "loop"
    /\ i = Len(stats)
    /\ pc' = "done"
    /\ UNCHANGED refineVars
    /\ UNCHANGED relabelVars
    /\ UNCHANGED selectVars

NextRefine == PatchDetect \/ RefineMask \/ RefineReturn

SpecRefine == InitRefine /\ [][NextRefine]_vars

\* ------------------------------------------------ refine_masks: claims

\* the regions the loop has processed so far
Processed == IF pc \in {"loop", "done"} THEN 1..i ELSE {}

\* the patch positions (0-based) of region k
PatchPositions == {<<r, c>> : r \in 0..(2 * dims[3] - 1), c \in 0..(2 * dims[3] - 1)}

\* the frame pixel under patch position q of region k
FramePixel(k, q) == <<seeds[k][1] - dims[3] + q[1], seeds[k][2] - dims[3] + q[2]>>

InFrame(p) == p[1] >= 0 /\ p[1] < dims[1] /\ p[2] >= 0 /\ p[2] < dims[2]

\* the weight region k had at frame pixel p before the call (0 off the footprint)
Weight0(k, p) ==
    LET idx == {j \in 1..Len(stats0[k].ypix) :
                    stats0[k].ypix[j] = p[1] /\ stats0[k].xpix[j] = p[2]}
    IN  IF idx = {} THEN 0 ELSE stats0[k].lam[CHOOSE j \in idx : TRUE]

\* patch positions on the original footprint of region k with a positive weight
FuncSet(k) == {q \in PatchPositions : Weight0(k, FramePixel(k, q)) > 0}

\* patch positions of region k that the patch mask labels id
LabelSet(k, id) == {q \in PatchPositions : At(patch_masks[k], q[1], q[2]) = id}

LabelIds(k) == {At(patch_masks[k], q[1], q[2]) : q \in PatchPositions} \ {0}

Inter(k, id) == Cardinality(LabelSet(k, id) \cap FuncSet(k))

Union(k, id) == Cardinality(LabelSet(k, id) \cup FuncSet(k))

\* the pixels of a region record, as a set
PixelSet(stat) == {<<stat.ypix[j], stat.xpix[j]>> : j \in 1..Len(stat.ypix)}

C2_StrictThreshold ==
    \A k \in Processed :
        IF \E id \in LabelIds(k) : ThresholdDen * Inter(k, id) > ThresholdNum * Union(k, id)
        THEN /\ stats[k].anatomical = TRUE
             /\ \E id \in LabelIds(k) :
                    /\ ThresholdDen * Inter(k, id) > ThresholdNum * Union(k, id)
                    /\ PixelSet(stats[k]) =
                          {p \in {FramePixel(k, q) : q \in LabelSet(k, id)} : InFrame(p)}
        ELSE stats[k] = [stats0[k] EXCEPT !.anatomical = FALSE]

\* a processed region whose best IOU is exactly 0.45 was left unrefined
C2_Witness ==
    \E k \in Processed :
        /\ \E id \in LabelIds(k) : ThresholdDen * Inter(k, id) = ThresholdNum * Union(k, id)
        /\ stats[k].anatomical = FALSE
        /\ stats[k].ypix = stats0[k].ypix

\* C7: every pixel coordinate written to a refined region lies in the frame.
C7_CoordinatesInFrame ==
    \A k \in Processed :
        stats[k].anatomical = TRUE =>
            \A j \in 1..Len(stats[k].ypix) :
                /\ 0 <= stats[k].ypix[j] /\ stats[k].ypix[j] < dims[1]
                /\ 0 <= stats[k].xpix[j] /\ stats[k].xpix[j] < dims[2]

\* a refined region whose patch window passes the frame on both sides in x and
\* on one side only in y, adopted from a label that also covers pixels outside
\* the frame
C7_Witness ==
    \E k \in Processed :
        /\ stats[k].anatomical = TRUE
        /\ Len(stats[k].ypix) > 0
        /\ seeds[k][2] - dims[3] < 0 /\ seeds[k][2] + dims[3] > dims[2]
        /\ (seeds[k][1] - dims[3] < 0) # (seeds[k][1] + dims[3] > dims[1])
        /\ \E id \in LabelIds(k) :
              /\ ThresholdDen * Inter(k, id) > ThresholdNum * Union(k, id)
              /\ \E q \in LabelSet(k, id) : ~InFrame(FramePixel(k, q))

\* ------------------------------------------- roi_detect: relabelling

\* the values of an array, as a set
Values(m) == {m[r][c] : r \in 1..Height(m), c \in 1..Width(m)}

\* _, masks = np.unique(np.int32(masks), return_inverse=True);
\* masks = masks.reshape(shape): every pixel becomes the 0-based index of its
\* value among the sorted distinct values of the array
Relabel(m) ==
    [r \in 1..Height(m) |-> [c \in 1..Width(m) |->
        Cardinality({v \in Values(m) : v < m[r][c]})]]

\* the largest label the external model may return in these checks
MaxLabel == 3

\* shapes of the label masks canonicalised on their own
RelabelShapes == {<<1, 3>>, <<2, 2>>, <<2, 3>>}

InitRelabel ==
    /\ pc = "relabel"
    /\ \E sh \in RelabelShapes :
        masks_in \in [1..sh[1] -> [1..sh[2] -> 0..MaxLabel]]
    /\ masks_out = <<>>
    /\ dims = <<>>
    /\ stats = <<>>
    /\ stats0 = <<>>
    /\ seeds = <<>>
    /\ patch_masks = <<>>
    /\ i = 0
    /\ stack = <<>>
    /\ ret = None
    /\ hist = <<>>

\* lines 137-139 of roi_detect applied to the mask the model returned
RelabelMasks ==
    /\ pc = "relabel"
    /\ masks_out' = Relabel(masks_in)
    /\ pc' = "relabelled"
    /\ UNCHANGED masks_in
    /\ UNCHANGED refineVars
    /\ UNCHANGED selectVars

\* the canonical mask is canonicalised again (a second roi_detect pass over it)
RelabelAgain ==
    /\ pc = "relabelled"
    /\ masks_in' = masks_out
    /\ masks_out' = Relabel(masks_out)
    /\ pc' = "relabelled_twice"
    /\ UNCHANGED refineVars
    /\ UNCHANGED selectVars

NextRelabel == RelabelMasks \/ RelabelAgain

SpecRelabel == InitRelabel /\ [][NextRelabel]_vars

\* the positive ids of a mask are exactly 1..n for some n
Contiguous(m) ==
    \A v \in Values(m) : v >= 0 /\ \A u \in 1..v : u \in Values(m)

\* C6: relabelling returns a mask of the same shape with background pixels
\* still 0 and positive ids contiguous from 1, and returns the identical mask
\* when the positive ids of the input are already exactly 1..n.
C6_RelabelIdempotent ==
    pc \in {"relabelled", "relabelled_twice"} =>
        /\ Height(masks_out) = Height(masks_in)
        /\ Width(masks_out) = Width(masks_in)
        /\ \A r \in 1..Height(masks_in), c \in 1..Width(masks_in) :
              masks_in[r][c] = 0 => masks_out[r][c] = 0
        /\ Contiguous(masks_out)
        /\ Contiguous(masks_in) => masks_out = masks_in

\* ------------------------------------------------- mask_centers, stats

\* how many entries of s are below v, and at most v
CountBelow(s, v) == Cardinality({k \in 1..Len(s) : s[k] < v})

CountUpTo(s, v) == Cardinality({k \in 1..Len(s) : s[k] <= v})

\* the k-th smallest entry of a non-empty sequence of integers
KthSmallest(s, k) ==
    CHOOSE v \in {s[j] : j \in 1..Len(s)} : CountBelow(s, v) < k /\ k <= CountUpTo(s, v)

\* twice np.median(s) (an integer also when the length is even)
Median2(s) ==
    IF Len(s) % 2 = 1 THEN 2 * KthSmallest(s, (Len(s) + 1) \div 2)
    ELSE KthSmallest(s, Len(s) \div 2) + KthSmallest(s, Len(s) \div 2 + 1)

\* the pixel of pix (row-major, non-empty) closest to the median pixel, first
\* one on a tie: ymed, xmed of utils.mask_stats and of masks_to_stats
MedianPixel(pix) ==
    LET d(p, ymed2, xmed2) == (2 * p[2] - xmed2) * (2 * p[2] - xmed2)
                              + (2 * p[1] - ymed2) * (2 * p[1] - ymed2)
    IN  CHOOSE p \in {pix[CHOOSE k \in 1..Len(pix) :
                            /\ \A j \in 1..Len(pix) :
                                  d(pix[k], ymed2, xmed2) <= d(pix[j], ymed2, xmed2)
                            /\ \A j \in 1..(k - 1) :
                                  d(pix[j], ymed2, xmed2) > d(pix[k], ymed2, xmed2)] :
                      ymed2 \in {Median2([k \in 1..Len(pix) |-> pix[k][1]])},
                      xmed2 \in {Median2([k \in 1..Len(pix) |-> pix[k][2]])}} : TRUE

\* utils.mask_stats(mask == id): the median pixel and the size of the region.
\* The program's diameter is 2 * sqrt(npix / pi); the model keeps npix, which
\* orders regions the same way.
mask_stats(m, id) ==
    CHOOSE t \in {<<MedianPixel(pix)[1], MedianPixel(pix)[2], Len(pix)>> :
                    pix \in {NonzeroEq(m, id)}} : TRUE

\* mask_centers(masks): per id 1..masks.max() the centre and the diameter, zero
\* for an id without pixels
mask_centers(m) ==
    [id \in 1..ArrayMax(m) |->
        IF Len(NonzeroEq(m, id)) = 0 THEN <<0, 0, 0>> ELSE mask_stats(m, id)]

\* find_objects(masks) holds None for an id in 1..masks.max() without pixels,
\* and "sr, sc = si" then raises TypeError
StatsRaises(m) == \E id \in 1..ArrayMax(m) : Len(NonzeroEq(m, id)) = 0

\* masks_to_stats(masks, weights): one record per id (the weights image is
\* real-valued and not part of the model)
masks_to_stats(m) ==
    [id \in 1..ArrayMax(m) |->
        CHOOSE st \in {[ypix |-> [k \in 1..Len(pix) |-> pix[k][1]],
                        xpix |-> [k \in 1..Len(pix) |-> pix[k][2]],
                        med |-> MedianPixel(pix),
                        footprint |-> 1] : pix \in {NonzeroEq(m, id)}} : TRUE]

\* ---------------------------------------------------------- select_rois

\* int(Lyc * rescale), rescale = diameter[1] / diameter[0] kept as a fraction
\* (the program multiplies by the rounded quotient; for the small integers of
\* these checks the result is the same)
DetectHeight(Lyc, d) == (Lyc * d[2]) \div d[1]

NoResize(m, h, w) == m

\* cv2.resize(masks, (w, h), interpolation=cv2.INTER_NEAREST): destination
\* pixel (r, c) takes source pixel (floor(r * H / h), floor(c * W / w))
ResizeNearest(m, h, w) ==
    [r \in 1..h |-> [c \in 1..w |->
        At(m, Min2(((r - 1) * Height(m)) \div h, Height(m) - 1),
              Min2(((c - 1) * Width(m)) \div w, Width(m) - 1))]]

NestedDiameterZero == Num(0)

\* select_rois(ops_copy, mov) passes no diameter: the parameter's default
NestedDiameter == None

\* what a finished call hands to its caller
Raise(exc) == [kind |-> "raise", exc |-> exc]

Return(val) == [kind |-> "return", val |-> val]

\* a call frame: the function, its position and its locals
Frame(fn, ops, shape, diameter, img) ==
    [fn |-> fn, pc |-> "start", ops |-> ops, shape |-> shape, diameter |-> diameter,
     rescale |-> None, img |-> img, masks |-> <<>>, median_diam |-> None]

Top == stack[Len(stack)]

Pop == SubSeq(stack, 1, Len(stack) - 1)

SetTop(f) == [stack EXCEPT ![Len(stack)] = f]

\* Lines 216-232 of select_rois: the frame after the diameter argument is
\* resolved, or the exception raised on the way.
\*   len(ops["diameter"]) of a number raises TypeError; a list diameter with a
\*   one-element ops["diameter"] becomes [diameter, diameter], and
\*   "diameter[1] > 0" then compares a list with 0 and raises TypeError;
\*   cv2.resize to height 0 raises cv2.error.
ResolveDiameter(f) ==
    LET d == f.diameter
        Lyc == f.shape[1]
        Lxc == f.shape[2]
    IN  IF d = None THEN Return(f)
        ELSE IF d.kind = "list"
        THEN IF f.ops.diameter.kind # "list" THEN Raise("TypeError")
             ELSE IF Len(f.ops.diameter.v) > 1
             THEN IF DetectHeight(Lyc, d.v) = 0 THEN Raise("cv2.error")
                  ELSE Return([f EXCEPT !.rescale = <<d.v[2], d.v[1]>>,
                                        !.img = <<DetectHeight(Lyc, d.v), Lxc>>])
             ELSE Raise("TypeError")
        ELSE Return([f EXCEPT !.rescale = <<1, 1>>, !.diameter = List(<<d.v, d.v>>)])

EstimateOutcomeNoCatch(r) ==
    IF r.kind = "raise" THEN r
    ELSE IF Len(r.val) > 0
    THEN Return(Num(Median2([k \in 1..Len(r.val) |-> Len(r.val[k].ypix)])))
    ELSE Return(None)

\* Lines 272-287 of estimate_diameter_from_activity, given what the nested
\* select_rois handed back: the median over the regions' sizes (twice the
\* median, to stay an integer), or None when there is no region or anything
\* was raised.
EstimateOutcome(r) ==
    IF r.kind = "raise" THEN Return(None)
    ELSE IF Len(r.val) > 0
    THEN Return(Num(Median2([k \in 1..Len(r.val) |-> Len(r.val[k].ypix)])))
    ELSE Return(None)

\* ------------------------------------------------- select_rois: inputs

\* the most regions the external model labels in one image
MaxRegions == 2

\* the deepest call stack followed
MaxStack == 8

\* mov.shape[1:] of the movies
MovieShapes == {<<2, 2>>, <<2, 3>>}

\* the diameter argument: absent, zero, a scalar, a [row, col] pair
Diameters == {None, Num(0), Num(2), List(<<1, 2>>), List(<<2, 1>>), List(<<2, 2>>),
              List(<<2, 3>>)}

\* ops["diameter"]: a scalar, a one-element list, a pair
OpsDiameters == {Num(2), List(<<2>>), List(<<1, 2>>)}

\* ops["anatomical_only"]: the mode only selects the detection image
AnatomicalModes == {0, 1}

\* the label masks model.eval may return for an h x w image: every row
\* background or one region
EvalMasks(h, w) == [1..h -> {[c \in 1..w |-> l] : l \in 0..MaxRegions}]

\* the diameter model.eval reports when it returns four outputs
ModelDiams == {3}

\* ------------------------------------------------ select_rois: actions

InitSelect ==
    /\ pc = "select_rois"
    /\ \E sh \in MovieShapes, d \in Diameters, od \in OpsDiameters,
          ao \in AnatomicalModes, hp \in {0, 1} :
        /\ stack = <<Frame("select_rois",
                           [anatomical_only |-> ao, diameter |-> od, spatial_hp_cp |-> hp],
                           sh, d, sh)>>
        /\ hist = [diameter |-> d, selectCalls |-> 1, evals |-> <<>>,
                   nested |-> <<>>, estimates |-> <<>>]
    /\ ret = None
    /\ dims = <<>>
    /\ stats = <<>>
    /\ stats0 = <<>>
    /\ seeds = <<>>
    /\ patch_masks = <<>>
    /\ i = 0
    /\ masks_in = <<>>
    /\ masks_out = <<>>

\* select_rois, lines 188-232: projections, detection image, diameter
SelectResolveDiameter ==
    /\ pc = "select_rois"
    /\ stack # <<>>
    /\ Top.fn = "select_rois" /\ Top.pc = "start"
    /\ LET r == ResolveDiameter(Top)
       IN  IF r.kind = "raise"
           THEN stack' = Pop /\ ret' = r
           ELSE stack' = SetTop([r.val EXCEPT !.pc = "detect"]) /\ ret' = ret
    /\ UNCHANGED <<pc, hist>>
    /\ UNCHANGED refineVars
    /\ UNCHANGED relabelVars

\* select_rois, lines 234-241: the spatial high-pass and the call of
\* roi_detect; both read diameter[1], which raises TypeError on None
SelectCallRoiDetect ==
    /\ pc = "select_rois"
    /\ stack # <<>>
    /\ Top.fn = "select_rois" /\ Top.pc = "detect"
    /\ IF Top.diameter = None
       THEN stack' = Pop /\ ret' = Raise("TypeError")
       ELSE /\ stack' = Append(SetTop([Top EXCEPT !.pc = "await_detect"]),
                               Frame("roi_detect", Top.ops, Top.shape,
                                     Num(Top.diameter.v[2]), Top.img))
            /\ ret' = ret
    /\ UNCHANGED <<pc, hist>>
    /\ UNCHANGED refineVars
    /\ UNCHANGED relabelVars

\* roi_detect, lines 116-135: a diameter of 0 becomes None, the model is
\* evaluated, and with three outputs the fallback is called
RoiDetectEval ==
    /\ pc = "select_rois"
    /\ stack # <<>>
    /\ Top.fn = "roi_detect" /\ Top.pc = "start"
    /\ LET d == IF Top.diameter = Num(0) THEN None ELSE Top.diameter
       IN  \E nout \in {3, 4}, m \in EvalMasks(Top.img[1], Top.img[2]), dm \in ModelDiams :
            /\ hist' = [hist EXCEPT !.evals =
                          Append(@, [depth |-> Len(stack), diameter |-> d,
                                     img |-> Top.img, nout |-> nout])]
            /\ IF nout = 4
               THEN stack' = SetTop([Top EXCEPT !.pc = "finish", !.diameter = d,
                                               !.masks = m, !.median_diam = Num(dm)])
               ELSE stack' = Append(SetTop([Top EXCEPT !.pc = "await_estimate",
                                                        !.diameter = d, !.masks = m]),
                                    Frame("estimate", Top.ops, Top.shape, None, Top.img))
    /\ UNCHANGED <<pc, ret>>
    /\ UNCHANGED refineVars
    /\ UNCHANGED relabelVars

\* estimate_diameter_from_activity, lines 267-271: select_rois is called on a
\* copy of ops with anatomical_only = 0 and no diameter.  The name select_rois
\* is the function of this module (the def of line 174 rebinds the name
\* imported on line 17).
EstimateCall ==
    /\ pc = "select_rois"
    /\ stack # <<>>
    /\ Top.fn = "estimate" /\ Top.pc = "start"
    /\ Len(stack) < MaxStack
    /\ stack' = Append(SetTop([Top EXCEPT !.pc = "await_select"]),
                       Frame("select_rois", [Top.ops EXCEPT !.anatomical_only = 0],
                             Top.shape, NestedDiameter, Top.shape))
    /\ hist' = [hist EXCEPT !.selectCalls = @ + 1]
    /\ UNCHANGED <<pc, ret>>
    /\ UNCHANGED refineVars
    /\ UNCHANGED relabelVars

\* estimate_diameter_from_activity, lines 272-287
EstimateReturn ==
    /\ pc = "select_rois"
    /\ stack # <<>>
    /\ Top.fn = "estimate" /\ Top.pc = "await_select"
    /\ stack' = Pop
    /\ ret' = EstimateOutcome(ret)
    /\ hist' = [hist EXCEPT
                  !.nested = Append(@, IF ret.kind = "raise" THEN "raise"
                                       ELSE IF Len(ret.val) = 0 THEN "empty"
                                       ELSE "regions"),
                  !.estimates = Append(@, ret')]
    /\ UNCHANGED pc
    /\ UNCHANGED refineVars
    /\ UNCHANGED relabelVars

\* roi_detect, lines 135-147: the fallback's value is taken, the labels are
\* made contiguous, centres and diameters are computed
RoiDetectFinish ==
    /\ pc = "select_rois"
    /\ stack # <<>>
    /\ Top.fn = "roi_detect" /\ Top.pc \in {"finish", "await_estimate"}
    /\ stack' = Pop
    /\ IF Top.pc = "await_estimate" /\ ret.kind = "raise"
       THEN ret' = ret
       ELSE \E masks \in {Relabel(Top.masks)} :
            \E centers \in {mask_centers(masks)} :
                ret' = Return([masks |-> masks,
                               centers |-> [k \in 1..Len(centers) |->
                                               <<centers[k][1], centers[k][2]>>],
                               median_diam |-> IF Top.pc = "await_estimate"
                                               THEN ret.val ELSE Top.median_diam,
                               mask_diams |-> [k \in 1..Len(centers) |-> centers[k][3]]])
    /\ UNCHANGED <<pc, hist>>
    /\ UNCHANGED refineVars
    /\ UNCHANGED relabelVars

\* select_rois, lines 238-244: roi_detect's results are unpacked and, after an
\* aspect-ratio rescale, mask and image are resized back to the frame
SelectResizeBack ==
    /\ pc = "select_rois"
    /\ stack # <<>>
    /\ Top.fn = "select_rois" /\ Top.pc = "await_detect"
    /\ IF ret.kind = "raise"
       THEN stack' = Pop /\ ret' = ret
       ELSE IF Top.rescale = None
       THEN stack' = Pop /\ ret' = Raise("UnboundLocalError")
       ELSE /\ stack' = SetTop([Top EXCEPT
                    !.pc = "stats",
                    !.median_diam = ret.val.median_diam,
                    !.masks = IF Top.rescale[1] # Top.rescale[2]
                              THEN ResizeNearest(ret.val.masks, Top.shape[1], Top.shape[2])
                              ELSE ret.val.masks,
                    !.img = IF Top.rescale[1] # Top.rescale[2] THEN Top.shape ELSE Top.img])
            /\ ret' = None
    /\ UNCHANGED <<pc, hist>>
    /\ UNCHANGED refineVars
    /\ UNCHANGED relabelVars

\* select_rois, lines 245-260: masks_to_stats, ops.update(new_ops), return
SelectMasksToStats ==
    /\ pc = "select_rois"
    /\ stack # <<>>
    /\ Top.fn = "select_rois" /\ Top.pc = "stats"
    /\ stack' = Pop
    /\ IF StatsRaises(Top.masks)
       THEN ret' = Raise("TypeError")
       ELSE ret' = [kind |-> "return", val |-> masks_to_stats(Top.masks),
                    ops |-> [Top.ops EXCEPT !.diameter = Top.median_diam]]
    /\ UNCHANGED <<pc, hist>>
    /\ UNCHANGED refineVars
    /\ UNCHANGED relabelVars

NextSelect ==
    \/ SelectResolveDiameter
    \/ SelectCallRoiDetect
    \/ RoiDetectEval
    \/ EstimateCall
    \/ EstimateReturn
    \/ RoiDetectFinish
    \/ SelectResizeBack
    \/ SelectMasksToStats

SpecSelect == InitSelect /\ [][NextSelect]_vars

\* the interpreter runs a call to its end: some step is always taken
SpecSelectFair == SpecSelect /\ WF_vars(NextSelect)

\* ------------------------------------------------- select_rois: claims

\* the top-level call has ended
Finished == pc = "select_rois" /\ stack = <<>>

\* a caller is about to take over what its callee handed back
Resumes(fn, at) ==
    /\ pc = "select_rois"
    /\ stack # <<>>
    /\ Top.fn = fn /\ Top.pc = at

\* C3: with diameter None or 0 the top-level select_rois returns, and its
\* roi_detect evaluates the model with no diameter.
C3_NoneOrZeroDiameterCompletes ==
    (Finished /\ hist.diameter \in {None, Num(0)}) =>
        /\ ret.kind = "return"
        /\ Len(hist.evals) >= 1
        /\ hist.evals[1].diameter = None

\* C4: on the three-output path the fallback re-runs detection to its end and,
\* when that detection yields a region, hands roi_detect the median diameter
\* (not None).
C4_FallbackReturnsMedian ==
    Resumes("roi_detect", "await_estimate") =>
        /\ hist.nested[Len(hist.nested)] # "raise"
        /\ hist.nested[Len(hist.nested)] = "regions" =>
              (ret.kind = "return" /\ ret.val # None)

\* C5: estimate_diameter_from_activity never raises, it returns None when the
\* nested detection raised or found no region, and roi_detect then returns
\* its masks and centers with a None diameter.
C5_FallbackNeverRaises ==
    /\ Resumes("roi_detect", "await_estimate") =>
          /\ ret.kind = "return"
          /\ hist.nested[Len(hist.nested)] \in {"raise", "empty"} => ret.val = None
    /\ (Resumes("select_rois", "await_detect") /\ Len(hist.estimates) >= 1) =>
          /\ ret.kind = "return"
          /\ hist.nested[Len(hist.nested)] \in {"raise", "empty"} =>
                /\ ret.val.median_diam = None
                /\ Height(ret.val.masks) = Top.img[1]
                /\ Len(ret.val.centers) = ArrayMax(ret.val.masks)

\* the nested detection raised and roi_detect came back with masks holding a
\* region and a None diameter
C5_Witness ==
    /\ Resumes("select_rois", "await_detect")
    /\ Len(hist.nested) >= 1
    /\ hist.nested[Len(hist.nested)] = "raise"
    /\ ret.kind = "return"
    /\ ret.val.median_diam = None
    /\ Len(ret.val.centers) >= 1

\* C8: with a [row, col] pair as diameter the model saw an image of height
\* int(Lyc * d_col / d_row) and width Lxc, and the mask converted to region
\* records has the shape (Lyc, Lxc) of a frame of the movie.
C8_RescaleRoundTrip ==
    (Resumes("select_rois", "stats") /\ Len(stack) = 1 /\ hist.diameter.kind = "list") =>
        /\ Height(Top.masks) = Top.shape[1]
        /\ \A r \in 1..Height(Top.masks) : Len(Top.masks[r]) = Top.shape[2]
        /\ hist.evals[1].img =
              <<(Top.shape[1] * hist.diameter.v[2]) \div hist.diameter.v[1], Top.shape[2]>>

\* diameter [1, 2]: the image was twice as high as the frame, and the mask is
\* back at the frame's shape before the region records are made
C8_Witness ==
    /\ Resumes("select_rois", "stats")
    /\ hist.diameter = List(<<1, 2>>)
    /\ hist.evals[1].img[1] = 2 * Top.shape[1]
    /\ Top.shape[1] # Top.shape[2]
    /\ Height(Top.masks) = Top.shape[1]

\* C9: the mask handed to masks_to_stats has contiguous ids, every id in
\* 1..max labels a pixel.
C9_StatsMaskContiguous ==
    Resumes("select_rois", "stats") =>
        \A id \in 1..ArrayMax(Top.masks) :
            \E r \in 1..Height(Top.masks), c \in 1..Width(Top.masks) : Top.masks[r][c] = id

\* the number of select_rois frames on the stack
SelectDepth == Cardinality({k \in 1..Len(stack) : stack[k].fn = "select_rois"})

\* C10: a top-level call makes at most one nested call of select_rois, the
\* nested call never reaches roi_detect or a further fallback, and the
\* top-level call ends.
C10_BoundedRecursion ==
    /\ [](pc = "select_rois" =>
            /\ SelectDepth <= 2
            /\ hist.selectCalls <= 2
            /\ Len(stack) <= 4
            /\ \A e \in 1..Len(hist.evals) : hist.evals[e].depth = 2)
    /\ <>(stack = <<>>)

\* the nested call was made and the top-level call has returned
C10_Witness ==
    /\ Finished
    /\ hist.selectCalls = 2
    /\ ret.kind = "return"

=============================================================================
